---- MODULE Spec2Model ----
(***************************************************************************)
(* Model of src/assignment_submissions_staging.py: the pipeline that lists *)
(* the pull requests of each assignment's repository, locates the workflow *)
(* runs of each pull request's head commit, selects the best run, and      *)
(* builds the rows handed to the staging table.                            *)
(*                                                                         *)
(* The hosting API is the environment.  The pull-request pages of every    *)
(* repository are fixed in the initial state (api_pulls); the run list of  *)
(* a head SHA and the detail of a run are chosen when they are requested.  *)
(* Every HTTP request may fail (RequestException) and every snapshot write *)
(* may fail (OSError).  main is modelled for json_path = '' (line 282).    *)
(***************************************************************************)
EXTENDS Integers, Sequences, FiniteSets, TLC

VARIABLES
  assignments,            \* main: the rows of query_assignments, in dict order
  api_pulls,              \* environment: per assignment, the pages of /pulls
  api_memo,               \* environment: the responses a later call gets again
  http,                   \* history: the HTTP requests issued, in order
  calls_left,             \* calls of retrieve_... still to come on this data
  first_output,           \* what the call before returned, <<>> if none
  pc,                     \* position of the (single-threaded) program
  exception,              \* the exception in flight or that ended main
  ai,                     \* main: index of the assignment of the for loop
  page,                   \* fetch_pull_requests: page
  requested,              \* history: pages requested by this fetch_pull_requests
  all_pulls,              \* fetch_pull_requests: all_pulls
  pulls_json,             \* retrieve_assignment_submission_data: pulls_json
  pi,                     \* index of pull_request in pulls_json
  pull_requests,          \* per assignment: assignment_data['pull_requests']
  workflow_runs,          \* the run summaries of the current pull request
  ri,                     \* process_workflow_runs: index of workflow_run
  fetched,                \* history: the run details fetched by this call
  recent_successful_run,  \* process_workflow_runs: <<>> is None
  most_recent_run,        \* process_workflow_runs: <<>> is None
  best_run,               \* the value process_workflow_runs returned
  returned,               \* per assignment: what retrieve_... returned
  raised,                 \* history: assignments whose request was refused
  dropped,                \* history: rows lost to a failed user lookup
  values,                 \* main: values
  insert_values           \* the rows handed to execute_insert_query

vars == <<assignments, api_pulls, api_memo, http, calls_left, first_output,
          pc, exception, ai, page, requested, all_pulls,
          pulls_json, pi, pull_requests, workflow_runs, ri, fetched,
          recent_successful_run, most_recent_run, best_run, returned, raised,
          dropped, values, insert_values>>

(***************************************************************************)
(* Bounds of the model.                                                    *)
(***************************************************************************)
MaxRuns == 3          \* run summaries per run list, selector on its own
NumTimes == 3         \* distinct updated_at strings
MaxPages == 3         \* pages of a pull-request resource, lister on its own
PageSize == 2         \* items per page, lister on its own
MaxPulls == 2         \* pull requests per repository, pipeline
BatchSize == 2        \* assignments per batch

(***************************************************************************)
(* Values.  None, {} and a missing or null JSON value are falsy in Python. *)
(***************************************************************************)
Null == 0             \* a JSON null / a falsy id
Absent == -1          \* the key is not in the JSON object

Statuses == {"completed", "in_progress"}
Conclusions == {"success", "failure"}

\* updated_at strings of equal width, as ISO-8601 timestamps are: 09, 10, 11, ...
TimeStr(i) == <<(8 + i) \div 10, (8 + i) % 10>>
Times == {TimeStr(i) : i \in 1..NumTimes}

\* The updated_at strings of the whole program's runs: two suffice there.
PipeTimes == {TimeStr(1), TimeStr(2)}

\* Python's s > t on strings: lexicographic, a proper prefix is smaller.
RECURSIVE StrGreater(_, _)
StrGreater(s, t) ==
  IF s = <<>> THEN FALSE
  ELSE IF t = <<>> THEN TRUE
  ELSE IF Head(s) # Head(t) THEN Head(s) > Head(t)
  ELSE StrGreater(Tail(s), Tail(t))

\* The run ids the API lists for a head SHA; runs of different SHAs differ.
RunId(sha, k) == 10 * sha + k
ShaOfRun(run_id) == run_id \div 10

\* A run list of /actions/runs?head_sha=sha: at most n summaries, each run
\* listed once (the k-th entry is run k of that SHA), some without an id.
RunLists(sha, n) ==
  UNION {{rs \in [1..k -> [id : {Null} \cup {RunId(sha, j) : j \in 1..n}]] :
            \A j \in 1..k : rs[j].id \in {Null, RunId(sha, j)}}
         : k \in 0..n}

\* The JSON of /actions/runs/{run_id}; run_number stands for the fields that
\* are copied unchanged (run_number, event, created_at, html_url, ...).
Details(run_id, times) ==
  [run_number : {run_id}, status : Statuses, conclusion : Conclusions,
   updated_at : times]

(***************************************************************************)
(* process_workflow_runs (lines 120-165).                                  *)
(***************************************************************************)
\* The dict built at lines 137-148 and 150-162.
RunRecord(run_id, workflow_json) ==
  [run_id |-> run_id,
   run_number |-> workflow_json.run_number,
   status |-> workflow_json.status,
   conclusion |-> workflow_json.conclusion,
   updated_at |-> workflow_json.updated_at]

\* A variant of lines 134-136 with >= for >: the last of equal runs is kept.
UpdateSuccessfulRunKeepsLast(cur, run_id, workflow_json) ==
  IF /\ workflow_json.status = "completed"
     /\ workflow_json.conclusion = "success"
     /\ \/ cur = <<>>
        \/ ~StrGreater(cur[1].updated_at, workflow_json.updated_at)
  THEN <<RunRecord(run_id, workflow_json)>>
  ELSE cur

\* A variant of lines 134-136 without the comparison: the successful run
\* seen last is kept.
UpdateSuccessfulRunLastSeen(cur, run_id, workflow_json) ==
  IF workflow_json.status = "completed" /\ workflow_json.conclusion = "success"
  THEN <<RunRecord(run_id, workflow_json)>>
  ELSE cur

\* Lines 131-148: the new value of recent_successful_run.
UpdateSuccessfulRun(cur, run_id, workflow_json) ==
  IF /\ workflow_json.status = "completed"
     /\ workflow_json.conclusion = "success"
     /\ \/ cur = <<>>
        \/ StrGreater(workflow_json.updated_at, cur[1].updated_at)
  THEN <<RunRecord(run_id, workflow_json)>>
  ELSE cur

\* A variant of lines 149-162 that, for a later run, replaces updated_at
\* alone and keeps the other fields of the run held.
UpdateMostRecentRunMixes(cur, run_id, workflow_json) ==
  IF cur = <<>> THEN <<RunRecord(run_id, workflow_json)>>
  ELSE IF StrGreater(workflow_json.updated_at, cur[1].updated_at)
       THEN <<[cur[1] EXCEPT !.updated_at = workflow_json.updated_at]>>
       ELSE cur

\* A variant of line 149 with >= for >: the last of equal runs is kept.
UpdateMostRecentRunKeepsLast(cur, run_id, workflow_json) ==
  IF \/ cur = <<>>
     \/ ~StrGreater(cur[1].updated_at, workflow_json.updated_at)
  THEN <<RunRecord(run_id, workflow_json)>>
  ELSE cur

\* Lines 149-162: the new value of most_recent_run.
UpdateMostRecentRun(cur, run_id, workflow_json) ==
  IF \/ cur = <<>>
     \/ StrGreater(workflow_json.updated_at, cur[1].updated_at)
  THEN <<RunRecord(run_id, workflow_json)>>
  ELSE cur

\* A variant of line 163 that falls back on the run found for the pull
\* request before, as if best_run outlived the call.
SelectBestRunStale(successful, recent) ==
  IF successful # <<>> THEN successful
  ELSE IF recent # <<>> THEN recent ELSE best_run

\* Line 163: recent_successful_run or most_recent_run.
SelectBestRun(successful, recent) ==
  IF successful # <<>> THEN successful ELSE recent

\* Lines 123-163 as a function of the details fetched, in the order of the
\* list (run_number stands for the run id the detail was fetched by).
RECURSIVE SelectFrom(_, _, _)
SelectFrom(details, successful, recent) ==
  IF details = <<>> THEN SelectBestRun(successful, recent)
  ELSE SelectFrom(Tail(details),
                  UpdateSuccessfulRun(successful, Head(details).run_number,
                                      Head(details)),
                  UpdateMostRecentRun(recent, Head(details).run_number,
                                      Head(details)))

ProcessWorkflowRuns(details) == SelectFrom(details, <<>>, <<>>)

\* What a step that issues no HTTP request leaves alone.
ApiUnchanged == UNCHANGED <<api_memo, http>>

\* The request is added to the log of the requests issued.
Logged(url, pg, key, ok) ==
  http' = Append(http, [a |-> ai, url |-> url, page |-> pg, key |-> key,
                        ok |-> ok])

\* One requests.get and raise_for_status: the request is issued and answered
\* with response, <<>> when the status is not a success and <<body>> when it
\* is.  A request the API has answered to an earlier call on the same data
\* is answered the same way again; the answers are kept while a call is
\* still to come.
Http(url, pg, key, response) ==
  /\ <<ai, url, pg, key>> \in DOMAIN api_memo
       => api_memo[<<ai, url, pg, key>>] = response
  /\ Logged(url, pg, key, response # <<>>)
  /\ api_memo' = IF calls_left > 0
                 THEN (<<ai, url, pg, key>> :> response) @@ api_memo
                 ELSE api_memo

\* What every step outside main's loop leaves alone.
MainUnchanged ==
  UNCHANGED <<assignments, api_pulls, calls_left,
                 first_output, ai, returned, raised, dropped, values,
              insert_values>>

ListerUnchanged == UNCHANGED <<page, requested, all_pulls>>

PullsUnchanged == UNCHANGED <<pulls_json, pi, pull_requests>>

\* A variant of lines 126-128 without the test: the detail of a summary
\* without an id is requested, and refused.
process_workflow_runs_skip_fetches ==
  /\ pc = "process"
  /\ ri <= Len(workflow_runs)
  /\ workflow_runs[ri].id = Null
  /\ Http("run", Null, Null, <<>>)
  /\ pc' = "request_exception"
  /\ exception' = "RequestException"
  /\ raised' = raised \cup {ai}
  /\ UNCHANGED <<workflow_runs, ri, fetched, recent_successful_run,
                 most_recent_run, best_run>>
  /\ UNCHANGED <<assignments, api_pulls, calls_left, first_output, ai,
                 returned, dropped, values, insert_values>>
  /\ ListerUnchanged /\ PullsUnchanged

\* Lines 125-128: a summary without an id is passed over.
process_workflow_runs_skip ==
  /\ pc = "process"
  /\ ri <= Len(workflow_runs)
  /\ workflow_runs[ri].id = Null
  /\ ri' = ri + 1
  /\ UNCHANGED <<pc, exception, workflow_runs, fetched, recent_successful_run,
                 most_recent_run, best_run>>
  /\ ApiUnchanged /\ MainUnchanged /\ ListerUnchanged /\ PullsUnchanged

\* Lines 125-162 with lines 105-117: one iteration whose detail fetch and
\* snapshot write succeed.
process_workflow_runs_fetch(times) ==
  /\ pc = "process"
  /\ ri <= Len(workflow_runs)
  /\ workflow_runs[ri].id # Null
  /\ \E workflow_json \in Details(workflow_runs[ri].id, times) :
       /\ Http("run", Null, workflow_runs[ri].id, <<workflow_json>>)
       /\ fetched' = Append(fetched, workflow_json)
       /\ recent_successful_run' =
            UpdateSuccessfulRun(recent_successful_run, workflow_runs[ri].id,
                                workflow_json)
       /\ most_recent_run' =
            UpdateMostRecentRun(most_recent_run, workflow_runs[ri].id,
                                workflow_json)
  /\ ri' = ri + 1
  /\ UNCHANGED <<pc, exception, workflow_runs, best_run>>
  /\ MainUnchanged /\ ListerUnchanged /\ PullsUnchanged

\* Lines 108-109: the detail request fails; raise_for_status raises.
fetch_workflow_run_id_http_error ==
  /\ pc = "process"
  /\ ri <= Len(workflow_runs)
  /\ workflow_runs[ri].id # Null
  /\ Http("run", Null, workflow_runs[ri].id, <<>>)
  /\ pc' = "request_exception"
  /\ exception' = "RequestException"
  /\ UNCHANGED <<workflow_runs, ri, fetched, recent_successful_run,
                 most_recent_run, best_run>>
  /\ raised' = raised \cup {ai}
  /\ UNCHANGED <<assignments, api_pulls, calls_left,
                 first_output, ai, returned, dropped, values,
                 insert_values>>
  /\ ListerUnchanged /\ PullsUnchanged

\* Lines 108-115: the detail is received and its snapshot cannot be written;
\* OSError is not caught.
fetch_workflow_run_id_write_error ==
  /\ pc = "process"
  /\ ri <= Len(workflow_runs)
  /\ workflow_runs[ri].id # Null
  /\ Logged("run", Null, workflow_runs[ri].id, TRUE)
  /\ UNCHANGED api_memo
  /\ pc' = "crashed"
  /\ exception' = "OSError"
  /\ UNCHANGED <<workflow_runs, ri, fetched, recent_successful_run,
                 most_recent_run, best_run>>
  /\ MainUnchanged /\ ListerUnchanged /\ PullsUnchanged

\* Lines 163-165: the loop is over; best_run is returned.
process_workflow_runs_return ==
  /\ pc = "process"
  /\ ri > Len(workflow_runs)
  /\ best_run' = SelectBestRun(recent_successful_run, most_recent_run)
  /\ pc' = "assemble"
  /\ UNCHANGED <<exception, workflow_runs, ri, fetched, recent_successful_run,
                 most_recent_run>>
  /\ ApiUnchanged /\ MainUnchanged /\ ListerUnchanged /\ PullsUnchanged

(***************************************************************************)
(* fetch_pull_requests (lines 50-79).                                      *)
(***************************************************************************)
\* The p-th raw entry of a repository's pull-request list.  id and state
\* stand for the fields copied unchanged (id, state, html_url, created_at).
PullEntry(p, number, sha, login) ==
  [number |-> number, sha |-> sha, id |-> 100 + p,
   state |-> IF p % 2 = 1 THEN "open" ELSE "closed", login |-> login]

\* The response to GET /pulls?page=k: a page past the end is empty and has
\* no Link header.
ApiPage(a, k) ==
  IF k <= Len(api_pulls[a]) THEN api_pulls[a][k]
  ELSE [items |-> <<>>, next |-> FALSE]

\* A variant of line 68 that keeps only the page just read.
ExtendPullsReplace(all, items) == items

\* Line 68: all_pulls.extend(pulls_json).
ExtendPulls(all, items) == all \o items

\* A variant of lines 69-74 that never goes on to a next page.
HasNextLinkNever(response) == FALSE

\* A variant of lines 69-74 that goes on after every non-empty page.
HasNextLinkAlways(response) == TRUE

\* Lines 69-74: the loop goes on iff a Link header names rel="next".
HasNextLink(response) == response.next

\* Lines 55-75: one iteration of the loop whose request succeeds.
fetch_pull_requests_page ==
  /\ pc = "fetch_pulls"
  /\ Http("pulls", page, Null, <<ApiPage(ai, page)>>)
  /\ requested' = Append(requested, page)
  /\ LET response == ApiPage(ai, page) IN
       IF response.items = <<>>
       THEN /\ pc' = "save_pulls"
            /\ UNCHANGED <<all_pulls, page>>
       ELSE /\ all_pulls' = ExtendPulls(all_pulls, response.items)
            /\ IF HasNextLink(response)
               THEN page' = page + 1 /\ pc' = pc
               ELSE page' = page /\ pc' = "save_pulls"
  /\ UNCHANGED <<exception, workflow_runs, ri, fetched, recent_successful_run,
                 most_recent_run, best_run>>
  /\ MainUnchanged /\ PullsUnchanged

\* Lines 57-64: the page request fails; raise_for_status raises.
fetch_pull_requests_http_error ==
  /\ pc = "fetch_pulls"
  /\ Http("pulls", page, Null, <<>>)
  /\ requested' = Append(requested, page)
  /\ pc' = "request_exception"
  /\ exception' = "RequestException"
  /\ UNCHANGED <<page, all_pulls, workflow_runs, ri, fetched,
                 recent_successful_run, most_recent_run, best_run>>
  /\ raised' = raised \cup {ai}
  /\ UNCHANGED <<assignments, api_pulls, calls_left,
                 first_output, ai, returned, dropped, values,
                 insert_values>>
  /\ PullsUnchanged

\* Lines 76-79: the snapshot is written and all_pulls is returned; line 179
\* starts the loop over it.
fetch_pull_requests_return ==
  /\ pc = "save_pulls"
  /\ pulls_json' = all_pulls
  /\ pi' = 1
  /\ pc' = "for_pull"
  /\ UNCHANGED <<exception, pull_requests, workflow_runs, ri, fetched,
                 recent_successful_run, most_recent_run, best_run>>
  /\ ApiUnchanged /\ MainUnchanged /\ ListerUnchanged

\* Lines 76-77: the snapshot cannot be written; OSError is not caught.
fetch_pull_requests_write_error ==
  /\ pc = "save_pulls"
  /\ pc' = "crashed"
  /\ exception' = "OSError"
  /\ UNCHANGED <<workflow_runs, ri, fetched, recent_successful_run,
                 most_recent_run, best_run>>
  /\ ApiUnchanged /\ MainUnchanged /\ ListerUnchanged /\ PullsUnchanged

(***************************************************************************)
(* fetch_pull_requests on its own: any pages, well paginated or not.       *)
(***************************************************************************)
\* The shapes of the pages: how many items each has and whether it has a
\* next link.
PageShapes ==
  UNION {[1..k -> [n : 0..PageSize, next : BOOLEAN]] : k \in 0..MaxPages}

\* The pages of those shapes over the entries first, first + 1, ...
RECURSIVE BuildPages(_, _)
BuildPages(shapes, first) ==
  IF shapes = <<>> THEN <<>>
  ELSE <<[items |-> [j \in 1..Head(shapes).n |->
                       PullEntry(first + j - 1, first + j - 1,
                                 first + j - 1, "user")],
          next |-> Head(shapes).next]>>
       \o BuildPages(Tail(shapes), first + Head(shapes).n)

\* An assignment of the batch: one row of query_assignments (lines 42-44).
Assignment(id, org, repo) ==
  [assignment_id |-> id, github_org |-> org, repo_name |-> repo]

InitPages ==
  /\ assignments = <<Assignment(1, "org", "repo")>>
  /\ \E shapes \in PageShapes : api_pulls = <<BuildPages(shapes, 1)>>
  /\ api_memo = <<>>
  /\ http = <<>>
  /\ calls_left = 0
  /\ first_output = <<>>
  /\ pc = "fetch_pulls"
  /\ exception = "none"
  /\ ai = 1
  /\ page = 1
  /\ requested = <<>>
  /\ all_pulls = <<>>
  /\ pulls_json = <<>>
  /\ pi = 0
  /\ pull_requests = <<<<>>>>
  /\ workflow_runs = <<>>
  /\ ri = 0
  /\ fetched = <<>>
  /\ recent_successful_run = <<>>
  /\ most_recent_run = <<>>
  /\ best_run = <<>>
  /\ returned = <<"pending">>
  /\ raised = {}
  /\ dropped = {}
  /\ values = <<>>
  /\ insert_values = <<>>

NextPages ==
  \/ fetch_pull_requests_page
  \/ fetch_pull_requests_http_error
  \/ fetch_pull_requests_return
  \/ fetch_pull_requests_write_error

SpecPages == InitPages /\ [][NextPages]_vars

\* The loop of lines 55-75 is run by one thread that is never suspended for
\* good: a step that can be taken is taken.
SpecPagesFair == SpecPages /\ WF_vars(NextPages)

(***************************************************************************)
(* process_workflow_runs on its own: any run list, any details.            *)
(***************************************************************************)
InitSelect ==
  /\ assignments = <<>>
  /\ api_pulls = <<>>
  /\ api_memo = <<>>
  /\ http = <<>>
  /\ calls_left = 0
  /\ first_output = <<>>
  /\ pc = "process"
  /\ exception = "none"
  /\ ai = 0
  /\ page = 0
  /\ requested = <<>>
  /\ all_pulls = <<>>
  /\ pulls_json = <<>>
  /\ pi = 0
  /\ pull_requests = <<>>
  /\ workflow_runs \in RunLists(1, MaxRuns)
  /\ ri = 1
  /\ fetched = <<>>
  /\ recent_successful_run = <<>>
  /\ most_recent_run = <<>>
  /\ best_run = <<>>
  /\ returned = <<>>
  /\ raised = {}
  /\ dropped = {}
  /\ values = <<>>
  /\ insert_values = <<>>

NextSelect ==
  \/ process_workflow_runs_skip
  \/ process_workflow_runs_fetch(Times)
  \/ fetch_workflow_run_id_http_error
  \/ fetch_workflow_run_id_write_error
  \/ process_workflow_runs_return

SpecSelect == InitSelect /\ [][NextSelect]_vars

(***************************************************************************)
(* retrieve_assignment_submission_data (lines 169-208).                    *)
(***************************************************************************)
SelectorUnchanged ==
  UNCHANGED <<workflow_runs, ri, fetched, recent_successful_run,
              most_recent_run, best_run>>

\* Lines 180-181: subscripting a key the entry does not have raises KeyError.
RaisesKeyError(pull_request) ==
  pull_request.number = Absent \/ pull_request.sha = Absent

\* Line 182: not pr_number or not head_sha.
SkipsPull(pull_request) ==
  pull_request.number = Null \/ pull_request.sha = Null

\* Lines 189-197: the record of a pull request, its workflow_run still {}.
NewRecord(pull_request) ==
  [pr_number |-> pull_request.number,
   pr_id |-> pull_request.id,
   state |-> pull_request.state,
   github_username |-> pull_request.login,
   head_sha |-> pull_request.sha,
   workflow_run |-> <<>>]

\* A variant of line 189 that adds an entry each time, as a list would.
DictSetAppends(d, record) == Append(d, record)

\* d[key] = record on a dict kept in insertion order: an existing key keeps
\* its place.
DictSet(d, record) ==
  IF \E k \in 1..Len(d) : d[k].pr_number = record.pr_number
  THEN [k \in 1..Len(d) |->
          IF d[k].pr_number = record.pr_number THEN record ELSE d[k]]
  ELSE Append(d, record)

\* A variant of lines 200-201 that stores the run in every record.
SetWorkflowRunOfAll(d, pr_number, run) ==
  IF run = <<>> THEN d
  ELSE [k \in 1..Len(d) |-> [d[k] EXCEPT !.workflow_run = run]]

\* Lines 200-201: if best_run: ...[pr_number]['workflow_run'] = best_run.
SetWorkflowRun(d, pr_number, run) ==
  IF run = <<>> THEN d
  ELSE [k \in 1..Len(d) |->
          IF d[k].pr_number = pr_number
          THEN [d[k] EXCEPT !.workflow_run = run] ELSE d[k]]

\* Lines 179-181: the entry lacks a key the loop subscripts; the KeyError is
\* no RequestException, so it leaves retrieve_... and main.
for_pull_key_error ==
  /\ pc = "for_pull"
  /\ pi <= Len(pulls_json)
  /\ RaisesKeyError(pulls_json[pi])
  /\ pc' = "crashed"
  /\ exception' = "KeyError"
  /\ ApiUnchanged /\ MainUnchanged /\ ListerUnchanged /\ PullsUnchanged
  /\ SelectorUnchanged

\* Lines 179-183: an entry with a null number or head SHA is passed over.
for_pull_skip ==
  /\ pc = "for_pull"
  /\ pi <= Len(pulls_json)
  /\ ~RaisesKeyError(pulls_json[pi])
  /\ SkipsPull(pulls_json[pi])
  /\ pi' = pi + 1
  /\ UNCHANGED <<pc, exception, pulls_json, pull_requests>>
  /\ ApiUnchanged /\ MainUnchanged /\ ListerUnchanged /\ SelectorUnchanged

\* Lines 179-197: the record of the entry is stored, its workflow_run {}.
for_pull_record ==
  /\ pc = "for_pull"
  /\ pi <= Len(pulls_json)
  /\ ~RaisesKeyError(pulls_json[pi])
  /\ ~SkipsPull(pulls_json[pi])
  /\ pull_requests' =
       [pull_requests EXCEPT ![ai] = DictSet(@, NewRecord(pulls_json[pi]))]
  /\ pc' = "fetch_runs"
  /\ UNCHANGED <<exception, pulls_json, pi>>
  /\ ApiUnchanged /\ MainUnchanged /\ ListerUnchanged /\ SelectorUnchanged

\* Lines 82-102 and 120-124: the run list of the head SHA is fetched and
\* saved, and process_workflow_runs starts on it.
fetch_workflow_runs_ok(maxRuns) ==
  /\ pc = "fetch_runs"
  /\ \E runs \in RunLists(pulls_json[pi].sha, maxRuns) :
       /\ Http("runs", 1, pulls_json[pi].sha, <<runs>>)
       /\ workflow_runs' = runs
  /\ ri' = 1
  /\ fetched' = <<>>
  /\ recent_successful_run' = <<>>
  /\ most_recent_run' = <<>>
  /\ pc' = "process"
  /\ UNCHANGED <<exception, best_run>>
  /\ MainUnchanged /\ ListerUnchanged /\ PullsUnchanged

\* Lines 86-93: the run-list request fails; raise_for_status raises.
fetch_workflow_runs_http_error ==
  /\ pc = "fetch_runs"
  /\ Http("runs", 1, pulls_json[pi].sha, <<>>)
  /\ pc' = "request_exception"
  /\ exception' = "RequestException"
  /\ raised' = raised \cup {ai}
  /\ UNCHANGED <<assignments, api_pulls, calls_left,
                 first_output, ai, returned, dropped, values,
                 insert_values>>
  /\ ListerUnchanged /\ PullsUnchanged /\ SelectorUnchanged

\* Lines 86-99: the run list is received and its snapshot cannot be written.
fetch_workflow_runs_write_error ==
  /\ pc = "fetch_runs"
  /\ Logged("runs", 1, pulls_json[pi].sha, TRUE)
  /\ UNCHANGED api_memo
  /\ pc' = "crashed"
  /\ exception' = "OSError"
  /\ MainUnchanged /\ ListerUnchanged /\ PullsUnchanged
  /\ SelectorUnchanged

\* Lines 199-201: the best run, if any, is stored in the record.  The locals
\* of process_workflow_runs are gone and workflow_runs is not read again;
\* best_run stays until the next pull request assigns it.
assemble ==
  /\ pc = "assemble"
  /\ pull_requests' =
       [pull_requests EXCEPT
          ![ai] = SetWorkflowRun(@, pulls_json[pi].number, best_run)]
  /\ pi' = pi + 1
  /\ pc' = "for_pull"
  /\ workflow_runs' = <<>>
  /\ ri' = 0
  /\ fetched' = <<>>
  /\ recent_successful_run' = <<>>
  /\ most_recent_run' = <<>>
  /\ UNCHANGED <<exception, pulls_json, best_run>>
  /\ ApiUnchanged /\ MainUnchanged /\ ListerUnchanged

\* Lines 202-204 and 208: the loop is over, the final snapshot is written and
\* assignment_data is returned.
retrieve_return ==
  /\ pc = "for_pull"
  /\ pi > Len(pulls_json)
  /\ returned' = [returned EXCEPT ![ai] = "data"]
  /\ pc' = "add"
  /\ UNCHANGED <<assignments, api_pulls, api_memo, http,
                 calls_left, first_output, ai, raised, dropped, values,
                 insert_values, exception>>
  /\ ListerUnchanged /\ PullsUnchanged /\ SelectorUnchanged

\* Lines 202-204: the final snapshot cannot be written.
retrieve_write_error ==
  /\ pc = "for_pull"
  /\ pi > Len(pulls_json)
  /\ pc' = "crashed"
  /\ exception' = "OSError"
  /\ ApiUnchanged /\ MainUnchanged /\ ListerUnchanged /\ PullsUnchanged
  /\ SelectorUnchanged

\* A variant of lines 205-208 without the return False: the exception is
\* caught and assignment_data is returned as it stands.
retrieve_except_returns_data ==
  /\ pc = "request_exception"
  /\ returned' = [returned EXCEPT ![ai] = "data"]
  /\ exception' = "none"
  /\ pc' = "add"
  /\ UNCHANGED <<assignments, api_pulls, api_memo, http,
                 calls_left, first_output, ai, raised, dropped, values,
                 insert_values>>
  /\ ListerUnchanged /\ PullsUnchanged /\ SelectorUnchanged

\* A variant of lines 205-207 that catches the exception and starts the
\* assignment over.
retrieve_except_retries ==
  /\ pc = "request_exception"
  /\ exception' = "none"
  /\ page' = 1
  /\ all_pulls' = <<>>
  /\ requested' = <<>>
  /\ pc' = "fetch_pulls"
  /\ ApiUnchanged /\ MainUnchanged /\ PullsUnchanged /\ SelectorUnchanged

\* A variant of lines 205-207 that does not catch the exception.
retrieve_except_not_caught ==
  /\ pc = "request_exception"
  /\ pc' = "crashed"
  /\ UNCHANGED exception
  /\ ApiUnchanged /\ MainUnchanged /\ ListerUnchanged /\ PullsUnchanged
  /\ SelectorUnchanged

\* Lines 205-207 and 283: the RequestException is caught, False is returned,
\* and main goes on to the next assignment.
retrieve_except ==
  /\ pc = "request_exception"
  /\ returned' = [returned EXCEPT ![ai] = "False"]
  /\ exception' = "none"
  /\ ai' = ai + 1
  /\ pc' = "main_loop"
  /\ UNCHANGED <<assignments, api_pulls, api_memo, http,
                 calls_left, first_output, raised, dropped, values,
                 insert_values>>
  /\ ListerUnchanged /\ PullsUnchanged /\ SelectorUnchanged

(***************************************************************************)
(* add_assignment_submissions_records (lines 212-245) and main (257-293).  *)
(***************************************************************************)
\* Line 223: workflow_run.get('conclusion') == 'success'; {} has no conclusion.
PassesPreliminaryChecks(workflow_run) ==
  workflow_run # <<>> /\ workflow_run[1].conclusion = "success"

\* The outcomes of the user lookup of lines 227-241: a row, no row, or an
\* exception, which line 243 swallows together with the record.
Lookups == {"found", "notfound", "error"}

\* Line 242: the row of one record.
Row(assignment_id, record, lookup) ==
  [assignment_id |-> assignment_id,
   user_id |-> IF lookup = "found" THEN "user_id" ELSE "null",
   pr_number |-> record.pr_number,
   passes_preliminary_checks |-> PassesPreliminaryChecks(record.workflow_run),
   pull_request_data |-> record]

\* A variant of lines 217-245 that returns inside the loop: the first record
\* alone is dealt with.
RowsFromFirstOnly(assignment_id, d, lookup, k) ==
  IF k > Len(d) THEN <<>>
  ELSE IF d[k].github_username # "" /\ lookup[k] # "error"
       THEN <<[assignment_id |-> assignment_id,
               user_id |-> IF lookup[k] = "found" THEN "user_id" ELSE "null",
               pr_number |-> d[k].pr_number,
               passes_preliminary_checks |->
                 d[k].workflow_run # <<>>
                 /\ d[k].workflow_run[1].conclusion = "success",
               pull_request_data |-> d[k]]>>
       ELSE <<>>

\* Lines 217-245: the rows of the records, in dict order; a record without a
\* username, or whose lookup raised, gives none.
RECURSIVE RowsFrom(_, _, _, _)
RowsFrom(assignment_id, d, lookup, k) ==
  IF k > Len(d) THEN <<>>
  ELSE (IF d[k].github_username # "" /\ lookup[k] # "error"
        THEN <<Row(assignment_id, d[k], lookup[k])>> ELSE <<>>)
       \o RowsFrom(assignment_id, d, lookup, k + 1)

\* Line 276: not owner or not repo.
MissingName(assignment) ==
  assignment.github_org = "" \/ assignment.repo_name = ""

\* Lines 272-277: the assignment lacks its organization or repository name;
\* the ValueError leaves the loop and main.
main_value_error ==
  /\ pc = "main_loop"
  /\ ai <= Len(assignments)
  /\ MissingName(assignments[ai])
  /\ pc' = "crashed"
  /\ exception' = "ValueError"
  /\ ApiUnchanged /\ MainUnchanged /\ ListerUnchanged /\ PullsUnchanged
  /\ SelectorUnchanged

\* Lines 272-282, 170-178 and 51-54: the next assignment is taken and
\* retrieve_assignment_submission_data starts fetching its pull requests.
main_retrieve ==
  /\ pc = "main_loop"
  /\ ai <= Len(assignments)
  /\ ~MissingName(assignments[ai])
  /\ page' = 1
  /\ all_pulls' = <<>>
  /\ requested' = <<>>
  /\ pc' = "fetch_pulls"
  /\ UNCHANGED exception
  /\ ApiUnchanged /\ MainUnchanged /\ PullsUnchanged /\ SelectorUnchanged

\* Lines 283-284: the rows of the returned assignment are added to values.
main_add ==
  /\ pc = "add"
  /\ \E lookup \in [1..Len(pull_requests[ai]) -> Lookups] :
       /\ values' = values \o RowsFrom(assignments[ai].assignment_id,
                                        pull_requests[ai], lookup, 1)
       /\ dropped' = dropped \cup
            {<<assignments[ai].assignment_id, pull_requests[ai][k].pr_number>> :
               k \in {j \in 1..Len(pull_requests[ai]) :
                        /\ pull_requests[ai][j].github_username # ""
                        /\ lookup[j] = "error"}}
  /\ ai' = ai + 1
  /\ pc' = "main_loop"
  /\ UNCHANGED <<assignments, api_pulls, api_memo, http,
                 calls_left, first_output, returned, raised, insert_values,
                 exception>>
  /\ ListerUnchanged /\ PullsUnchanged /\ SelectorUnchanged

\* Lines 286-293: the loop is over; the rows, if any, are logged and handed
\* to execute_insert_query.
main_insert ==
  /\ pc = "main_loop"
  /\ ai > Len(assignments)
  /\ insert_values' = values
  /\ pc' = "done"
  /\ UNCHANGED <<assignments, api_pulls, api_memo, http,
                 calls_left, first_output, ai, returned, raised, dropped,
                 values, exception>>
  /\ ListerUnchanged /\ PullsUnchanged /\ SelectorUnchanged

\* Lines 288-289: the insert log cannot be appended to.
main_write_error ==
  /\ pc = "main_loop"
  /\ ai > Len(assignments)
  /\ values # <<>>
  /\ pc' = "crashed"
  /\ exception' = "OSError"
  /\ ApiUnchanged /\ MainUnchanged /\ ListerUnchanged /\ PullsUnchanged
  /\ SelectorUnchanged

(***************************************************************************)
(* The whole program, from the assignments main has read.                  *)
(***************************************************************************)
\* The raw entries the API may list at place p of a repository: well formed
\* (with or without an author), or with a null or missing number or SHA.
PullEntries(p) ==
  {PullEntry(p, p, p, login) : login \in {"user", ""}}
  \cup {PullEntry(p, number, p, "user") : number \in {Null, Absent}}
  \cup {PullEntry(p, p, sha, "user") : sha \in {Null, Absent}}

PullLists(n) ==
  UNION {{l \in [1..k -> UNION {PullEntries(p) : p \in 1..n}] :
            \A p \in 1..k : l[p] \in PullEntries(p)} : k \in 0..n}

\* The list served as pages of size items, every page but the last with a
\* next link.  The whole program is given pages of one item.
Paginate(list, size) ==
  LET count == (Len(list) + size - 1) \div size
  IN [k \in 1..count |->
        [items |-> SubSeq(list, (k - 1) * size + 1,
                          IF k * size < Len(list) THEN k * size ELSE Len(list)),
         next |-> k < count]]

Names == {<<"org", "repo">>, <<"", "repo">>, <<"org", "">>}

InitMain(n, repos) ==
  /\ \E names \in [1..n -> Names] :
       assignments = [a \in 1..n |-> Assignment(a, names[a][1], names[a][2])]
  /\ \E lists \in [1..n -> repos] :
       api_pulls = [a \in 1..n |-> Paginate(lists[a], 1)]
  /\ api_memo = <<>>
  /\ http = <<>>
  /\ calls_left = 0
  /\ first_output = <<>>
  /\ pc = "main_loop"
  /\ exception = "none"
  /\ ai = 1
  /\ page = 0
  /\ requested = <<>>
  /\ all_pulls = <<>>
  /\ pulls_json = <<>>
  /\ pi = 0
  /\ pull_requests = [a \in 1..n |-> <<>>]
  /\ workflow_runs = <<>>
  /\ ri = 0
  /\ fetched = <<>>
  /\ recent_successful_run = <<>>
  /\ most_recent_run = <<>>
  /\ best_run = <<>>
  /\ returned = [a \in 1..n |-> "pending"]
  /\ raised = {}
  /\ dropped = {}
  /\ values = <<>>
  /\ insert_values = <<>>

Program(maxRuns, times) ==
  \/ main_value_error
  \/ main_retrieve
  \/ fetch_pull_requests_page
  \/ fetch_pull_requests_http_error
  \/ fetch_pull_requests_return
  \/ fetch_pull_requests_write_error
  \/ for_pull_key_error
  \/ for_pull_skip
  \/ for_pull_record
  \/ fetch_workflow_runs_ok(maxRuns)
  \/ fetch_workflow_runs_http_error
  \/ fetch_workflow_runs_write_error
  \/ process_workflow_runs_skip
  \/ process_workflow_runs_fetch(times)
  \/ fetch_workflow_run_id_http_error
  \/ fetch_workflow_run_id_write_error
  \/ process_workflow_runs_return
  \/ assemble
  \/ retrieve_return
  \/ retrieve_write_error
  \/ retrieve_except
  \/ main_add
  \/ main_insert
  \/ main_write_error

\* One assignment, in detail: any pull requests, with one run at most each.
Init == InitMain(1, PullLists(MaxPulls))

Next == Program(1, PipeTimes)

Spec == Init /\ [][Next]_vars

\* A batch of assignments whose repositories list one pull request at most,
\* with one run at most.
BatchRepos == {list \in PullLists(MaxPulls) : Len(list) <= 1}

InitBatch == InitMain(BatchSize, BatchRepos)

NextBatch == Program(1, PipeTimes)

SpecBatch == InitBatch /\ [][NextBatch]_vars

\* One pull request, from the request of its run list (line 198) to its
\* record (line 201): any run list of up to MaxRuns summaries, any details.
InitRuns ==
  LET list == <<PullEntry(1, 1, 1, "user")>> IN
    /\ assignments = <<Assignment(1, "org", "repo")>>
    /\ api_pulls = <<Paginate(list, 1)>>
    /\ api_memo = <<>>
    /\ http = <<[a |-> 1, url |-> "pulls", page |-> 1, key |-> Null,
                 ok |-> TRUE]>>
    /\ calls_left = 0
    /\ first_output = <<>>
    /\ pc = "fetch_runs"
    /\ exception = "none"
    /\ ai = 1
    /\ page = 1
    /\ requested = <<1>>
    /\ all_pulls = list
    /\ pulls_json = list
    /\ pi = 1
    /\ pull_requests = <<<<NewRecord(list[1])>>>>
    /\ workflow_runs = <<>>
    /\ ri = 0
    /\ fetched = <<>>
    /\ recent_successful_run = <<>>
    /\ most_recent_run = <<>>
    /\ best_run = <<>>
    /\ returned = <<"pending">>
    /\ raised = {}
    /\ dropped = {}
    /\ values = <<>>
    /\ insert_values = <<>>

NextRuns ==
  \/ fetch_workflow_runs_ok(MaxRuns)
  \/ fetch_workflow_runs_http_error
  \/ fetch_workflow_runs_write_error
  \/ process_workflow_runs_skip
  \/ process_workflow_runs_fetch(Times)
  \/ fetch_workflow_run_id_http_error
  \/ fetch_workflow_run_id_write_error
  \/ process_workflow_runs_return
  \/ assemble

SpecRuns == InitRuns /\ [][NextRuns]_vars

\* A batch whose first repository lists up to MaxPulls pull requests, the
\* first of any shape, whose second repository lists one pull request at
\* most and whose other repositories list none; the pull requests are of a
\* known author and their runs all updated at the same time.
OrderRepos ==
  {list \in PullLists(MaxPulls) :
     \A p \in 1..Len(list) :
       /\ list[p].login = "user"
       /\ p > 1 => ~RaisesKeyError(list[p]) /\ ~SkipsPull(list[p])}

InitOrder ==
  /\ InitMain(BatchSize, OrderRepos)
  /\ \A a \in 2..BatchSize :
       /\ Len(api_pulls[a]) <= (IF a = 2 THEN 1 ELSE 0)
       /\ \A k \in 1..Len(api_pulls[a]) :
            /\ ~RaisesKeyError(api_pulls[a][k].items[1])
            /\ ~SkipsPull(api_pulls[a][k].items[1])

NextOrder == Program(1, {TimeStr(1)})

SpecOrder == InitOrder /\ [][NextOrder]_vars

(***************************************************************************)
(* retrieve_assignment_submission_data called a second time with the       *)
(* assignment_data the first call has filled in, against an API that       *)
(* answers every request as it did the first time.                         *)
(***************************************************************************)
\* The assignment pulls_json belongs to.
CurrentAssignment == IF pc \in {"main_loop", "done"} THEN ai - 1 ELSE ai

\* What a call of retrieve_... has produced once it is over: its return
\* value and the assignment_data it returns (lines 207-208).
Output(a) ==
  [returned |-> returned[a],
   pull_requests |-> IF returned[a] = "data" THEN pull_requests[a] ELSE <<>>]

\* Lines 169-178 and 51-54, called again: the caller keeps what the call
\* returned and passes the same assignment_data, whose pull_requests line 176
\* keeps.
retrieve_again ==
  /\ pc \in {"add", "main_loop"}
  /\ calls_left > 0
  /\ calls_left' = calls_left - 1
  /\ first_output' = <<[output |-> Output(CurrentAssignment),
                        requests |-> Len(http)]>>
  /\ ai' = CurrentAssignment
  /\ returned' = [returned EXCEPT ![CurrentAssignment] = "pending"]
  /\ page' = 1
  /\ all_pulls' = <<>>
  /\ requested' = <<>>
  /\ pulls_json' = <<>>
  /\ pi' = 0
  /\ pc' = "fetch_pulls"
  /\ UNCHANGED <<assignments, api_pulls, raised, dropped, values,
                 insert_values, exception, pull_requests>>
  /\ ApiUnchanged /\ SelectorUnchanged

InitTwice ==
  /\ assignments = <<Assignment(1, "org", "repo")>>
  /\ \E list \in PullLists(MaxPulls) : api_pulls = <<Paginate(list, 1)>>
  /\ api_memo = <<>>
  /\ http = <<>>
  /\ calls_left = 1
  /\ first_output = <<>>
  /\ pc = "fetch_pulls"
  /\ exception = "none"
  /\ ai = 1
  /\ page = 1
  /\ requested = <<>>
  /\ all_pulls = <<>>
  /\ pulls_json = <<>>
  /\ pi = 0
  /\ pull_requests = <<<<>>>>
  /\ workflow_runs = <<>>
  /\ ri = 0
  /\ fetched = <<>>
  /\ recent_successful_run = <<>>
  /\ most_recent_run = <<>>
  /\ best_run = <<>>
  /\ returned = <<"pending">>
  /\ raised = {}
  /\ dropped = {}
  /\ values = <<>>
  /\ insert_values = <<>>

NextTwice ==
  \/ fetch_pull_requests_page
  \/ fetch_pull_requests_http_error
  \/ fetch_pull_requests_return
  \/ fetch_pull_requests_write_error
  \/ for_pull_key_error
  \/ for_pull_skip
  \/ for_pull_record
  \/ fetch_workflow_runs_ok(1)
  \/ fetch_workflow_runs_http_error
  \/ fetch_workflow_runs_write_error
  \/ process_workflow_runs_skip
  \/ process_workflow_runs_fetch(PipeTimes)
  \/ fetch_workflow_run_id_http_error
  \/ fetch_workflow_run_id_write_error
  \/ process_workflow_runs_return
  \/ assemble
  \/ retrieve_return
  \/ retrieve_write_error
  \/ retrieve_except
  \/ retrieve_again

SpecTwice == InitTwice /\ [][NextTwice]_vars

(***************************************************************************)
(* The selection policy, stated over the details the call fetched.         *)
(***************************************************************************)
Successful(detail) ==
  detail.status = "completed" /\ detail.conclusion = "success"

SuccessfulIdx == {k \in 1..Len(fetched) : Successful(fetched[k])}

\* fetched[k] has the greatest updated_at of the details at idx, and is the
\* earliest of those that have it.
FirstGreatest(k, idx) ==
  /\ k \in idx
  /\ \A j \in idx :
       /\ ~StrGreater(fetched[j].updated_at, fetched[k].updated_at)
       /\ fetched[j].updated_at = fetched[k].updated_at => k <= j

\* best_run is the run of fetched[k], whole.
BestRunIs(k) ==
  best_run = <<RunRecord(fetched[k].run_number, fetched[k])>>

\* C2: when some fetched run is completed with conclusion success,
\* process_workflow_runs returns the successful run with the greatest
\* updated_at, whatever the other runs are, and the earliest in input order
\* of the successful runs that share it.
C2_SuccessfulRunSelected ==
  (pc = "assemble" /\ SuccessfulIdx # {}) =>
    \E k \in SuccessfulIdx : FirstGreatest(k, SuccessfulIdx) /\ BestRunIs(k)

\* Two successful runs share the greatest updated_at of the successful runs
\* and a run that did not succeed was updated later.
C2_Witness ==
  /\ pc = "assemble"
  /\ \E i, j \in SuccessfulIdx :
       /\ i < j
       /\ FirstGreatest(i, SuccessfulIdx)
       /\ fetched[j].updated_at = fetched[i].updated_at
       /\ BestRunIs(i)
       /\ \E f \in 1..Len(fetched) :
            /\ f \notin SuccessfulIdx
            /\ StrGreater(fetched[f].updated_at, fetched[i].updated_at)

\* C3: when runs were fetched and none is completed with conclusion success,
\* process_workflow_runs returns the run with the greatest updated_at of all
\* of them, and the earliest in input order of those that share it.
C3_MostRecentRunSelected ==
  (pc = "assemble" /\ SuccessfulIdx = {} /\ fetched # <<>>) =>
    \E k \in 1..Len(fetched) :
      FirstGreatest(k, 1..Len(fetched)) /\ BestRunIs(k)

\* No run succeeded, two runs share the greatest updated_at, and the runs
\* include an unfinished one and an earlier one.
C3_Witness ==
  /\ pc = "assemble"
  /\ SuccessfulIdx = {}
  /\ \E i, j, e \in 1..Len(fetched) :
       /\ i < j
       /\ FirstGreatest(i, 1..Len(fetched))
       /\ fetched[j].updated_at = fetched[i].updated_at
       /\ fetched[j].status # "completed"
       /\ StrGreater(fetched[i].updated_at, fetched[e].updated_at)
       /\ BestRunIs(i)

(***************************************************************************)
(* Pagination, stated over the pages the API serves.                       *)
(***************************************************************************)
RECURSIVE AllItems(_)
AllItems(pages) ==
  IF pages = <<>> THEN <<>> ELSE Head(pages).items \o AllItems(Tail(pages))

\* The pages are a resource of N items cut into ceil(N / size) pages, every
\* page but the last with a next link.
WellPaginated(pages) ==
  \E size \in 1..PageSize :
    LET N == Len(AllItems(pages))
        count == (N + size - 1) \div size
    IN /\ Len(pages) = count
       /\ \A k \in 1..count :
            /\ Len(pages[k].items) = IF k < count THEN size
                                      ELSE N - (count - 1) * size
            /\ pages[k].next = (k < count)

\* C5: from a well-paginated resource fetch_pull_requests returns the items
\* of all the pages, each once and in page order, having requested pages
\* 1, 2, ... once each in increasing order (page 1 alone when there is none).
C5_PaginationComplete ==
  (pc = "for_pull" /\ WellPaginated(api_pulls[ai])) =>
    /\ pulls_json = AllItems(api_pulls[ai])
    /\ requested = [k \in 1..(IF api_pulls[ai] = <<>> THEN 1
                               ELSE Len(api_pulls[ai])) |-> k]

\* A resource of several pages, the last one not full, was read to the end.
C5_Witness ==
  /\ pc = "for_pull"
  /\ WellPaginated(api_pulls[ai])
  /\ Len(api_pulls[ai]) >= 2
  /\ Len(api_pulls[ai][Len(api_pulls[ai])].items) < Len(api_pulls[ai][1].items)
  /\ Len(pulls_json) = Len(AllItems(api_pulls[ai]))
  /\ Len(requested) = Len(api_pulls[ai])

(***************************************************************************)
(* The records and the rows, stated over what the API listed.              *)
(***************************************************************************)
\* The pull requests the lister returns for assignment a.
Listed(a) == AllItems(api_pulls[a])

WellFormed(pull_request) ==
  /\ pull_request.number \notin {Null, Absent}
  /\ pull_request.sha \notin {Null, Absent}

\* The selected run is completed with conclusion success.
CompletedSuccess(workflow_run) ==
  /\ workflow_run # <<>>
  /\ workflow_run[1].status = "completed"
  /\ workflow_run[1].conclusion = "success"

\* The last pull request that got its record and its run, if any has.
LastAssembled ==
  {j \in 1..(pi - 1) :
     /\ WellFormed(pulls_json[j])
     /\ \A k \in (j + 1)..(pi - 1) : ~WellFormed(pulls_json[k])}

RowsOf(rows, a, pr_number) ==
  {k \in 1..Len(rows) :
     /\ rows[k].assignment_id = assignments[a].assignment_id
     /\ rows[k].pr_number = pr_number}

\* Every record of assignment b that has an author and whose user lookup did
\* not raise is among the rows handed to execute_insert_query.
RowsPersisted(b) ==
  \A k \in 1..Len(pull_requests[b]) :
    LET record == pull_requests[b][k] IN
      (/\ record.github_username # ""
       /\ <<assignments[b].assignment_id, record.pr_number>> \notin dropped)
      => \E i \in RowsOf(insert_values, b, record.pr_number) :
           insert_values[i].pull_request_data = record

\* C1: in every row, passes_preliminary_checks is true iff the selected run
\* has status "completed" and conclusion "success".
C1_PassesIffCompletedSuccess ==
  \A k \in 1..Len(values) :
    values[k].passes_preliminary_checks
      = CompletedSuccess(values[k].pull_request_data.workflow_run)

\* C4: when the run list of a pull request is empty, process_workflow_runs
\* returns none; and a pull request for which it returned none has a record
\* whose workflow_run is {}, and its row, if it gets one, has
\* passes_preliminary_checks false.
C4_NoRunsEmptyRecord ==
  /\ (pc = "assemble" /\ workflow_runs = <<>>) =>
       /\ best_run = <<>>
       /\ \E k \in 1..Len(pull_requests[ai]) :
            /\ pull_requests[ai][k].pr_number = pulls_json[pi].number
            /\ pull_requests[ai][k].workflow_run = <<>>
  /\ (/\ pc \in {"for_pull", "fetch_runs", "add", "main_loop", "done"}
      /\ best_run = <<>>) =>
       \A j \in LastAssembled :
         /\ \E k \in 1..Len(pull_requests[CurrentAssignment]) :
              /\ pull_requests[CurrentAssignment][k].pr_number
                   = pulls_json[j].number
              /\ pull_requests[CurrentAssignment][k].workflow_run = <<>>
         /\ \A rows \in {values, insert_values} :
              \A k \in RowsOf(rows, CurrentAssignment, pulls_json[j].number) :
                /\ rows[k].pull_request_data.workflow_run = <<>>
                /\ ~rows[k].passes_preliminary_checks

\* The second pull request has no runs and its row says so, after a first
\* pull request whose run passed.
C4_Witness ==
  /\ pc = "done"
  /\ best_run = <<>>
  /\ Len(insert_values) = 2
  /\ insert_values[1].passes_preliminary_checks
  /\ insert_values[2].pr_number = pulls_json[2].number
  /\ insert_values[2].pull_request_data.workflow_run = <<>>
  /\ ~insert_values[2].passes_preliminary_checks

\* C6: a refused request while assignment A is processed ends A alone: main
\* goes on to the next assignment, and when main ends every assignment has
\* been processed and the rows of those that returned are handed over.
C6_TransportErrorIsolated ==
  /\ \A a \in raised :
       IF ai = a
       THEN pc = "request_exception" /\ exception = "RequestException"
       ELSE ai > a /\ returned[a] = "False"
  /\ pc = "done" =>
       \A b \in 1..Len(assignments) :
         /\ returned[b] # "pending"
         /\ returned[b] = "data" => RowsPersisted(b)

\* Assignment 1 failed while its pull request was processed, and the row of
\* assignment 2 was handed over.
C6_Witness ==
  /\ pc = "done"
  /\ 1 \in raised
  /\ pull_requests[1] # <<>>
  /\ returned[2] = "data"
  /\ pull_requests[2] # <<>>
  /\ \E k \in 1..Len(insert_values) :
       /\ insert_values[k].assignment_id = assignments[2].assignment_id
       /\ insert_values[k].pull_request_data = pull_requests[2][1]

\* C7: a record of an assignment one of whose requests was refused, the
\* record left with its placeholder workflow_run in particular, is in no row
\* of values and in no row handed to execute_insert_query.
C7_NoPartialRecordPersisted ==
  \A a \in raised :
    \A k \in 1..Len(pull_requests[a]) :
      \A rows \in {values, insert_values} :
        RowsOf(rows, a, pull_requests[a][k].pr_number) = {}

\* A request was refused after the record of a pull request was stored, and
\* rows of another assignment were handed over.
C7_Witness ==
  /\ pc = "done"
  /\ insert_values # <<>>
  /\ \E a \in raised :
       /\ pull_requests[a] # <<>>
       /\ pull_requests[a][1].github_username # ""
       /\ pull_requests[a][1].workflow_run = <<>>

\* C8: a raw entry without a head SHA or a PR number gets no record and does
\* not end the processing: the entries after it get their records and the
\* assignment returns.
C8_MalformedEntrySkipped ==
  /\ ~(pc = "crashed" /\ exception = "KeyError")
  /\ \A a \in 1..Len(assignments) :
       \A j \in 1..Len(Listed(a)) :
         LET has == \E k \in 1..Len(pull_requests[a]) :
                      pull_requests[a][k].pr_id = Listed(a)[j].id
         IN /\ ~WellFormed(Listed(a)[j]) => ~has
            /\ (returned[a] = "data" /\ WellFormed(Listed(a)[j])) => has

\* C9: an assignment without its organization or repository name is not
\* processed, and unless something else fails the other assignments of the
\* batch are processed and their rows handed over.
C9_MissingNameIsolated ==
  \A a, b \in 1..Len(assignments) :
    (/\ MissingName(assignments[a])
     /\ ~MissingName(assignments[b])
     /\ pc \in {"done", "crashed"}
     /\ exception \notin {"KeyError", "OSError"}) =>
      /\ returned[a] = "pending"
      /\ returned[b] # "pending"
      /\ returned[b] = "data" => RowsPersisted(b)

\* C10: when retrieve_assignment_submission_data returns the assignment, its
\* pull_requests map has one record for each well-formed pull request listed
\* and no other, with that pull request's own fields, and a workflow_run that
\* is empty or a whole run of that pull request's head SHA: the run
\* process_workflow_runs returned for it.
C10_OneRecordPerPull ==
  /\ \A a \in 1..Len(assignments) :
       returned[a] = "data" =>
         LET d == pull_requests[a]
             wf == {j \in 1..Len(Listed(a)) : WellFormed(Listed(a)[j])}
         IN /\ Len(d) = Cardinality(wf)
            /\ \A j \in wf :
                 \E k \in 1..Len(d) :
                   /\ d[k].pr_number = Listed(a)[j].number
                   /\ d[k].pr_id = Listed(a)[j].id
                   /\ d[k].state = Listed(a)[j].state
                   /\ d[k].github_username = Listed(a)[j].login
                   /\ d[k].head_sha = Listed(a)[j].sha
                   /\ \A m \in 1..Len(d) :
                        d[m].pr_number = d[k].pr_number => m = k
            /\ \A k \in 1..Len(d) :
                 /\ \E j \in wf : d[k].pr_number = Listed(a)[j].number
                 /\ \/ d[k].workflow_run = <<>>
                    \/ /\ ShaOfRun(d[k].workflow_run[1].run_id) = d[k].head_sha
                       /\ d[k].workflow_run[1].run_number
                            = d[k].workflow_run[1].run_id
  /\ pc \in {"for_pull", "fetch_runs", "add", "main_loop", "done"} =>
       \A j \in LastAssembled :
         \E k \in 1..Len(pull_requests[CurrentAssignment]) :
           /\ pull_requests[CurrentAssignment][k].pr_number
                = pulls_json[j].number
           /\ pull_requests[CurrentAssignment][k].workflow_run = best_run

\* Two pull requests of different head SHAs were listed, each has a run of
\* its own head SHA, and the assignment returned.
C10_Witness ==
  /\ returned[1] = "data"
  /\ Len(pull_requests[1]) = 2
  /\ \A k \in 1..2 :
       /\ pull_requests[1][k].workflow_run # <<>>
       /\ ShaOfRun(pull_requests[1][k].workflow_run[1].run_id)
            = pull_requests[1][k].head_sha
  /\ pull_requests[1][1].head_sha # pull_requests[1][2].head_sha

(***************************************************************************)
(* Two calls against the same responses.                                   *)
(***************************************************************************)
\* The second call of retrieve_... is over.
SecondCallOver ==
  /\ first_output # <<>>
  /\ calls_left = 0
  /\ pc \in {"add", "main_loop"}

\* C11: a second call of retrieve_assignment_submission_data, given the
\* assignment_data the first call filled in and the same response to every
\* request, issues the same requests in the same order and returns what the
\* first call returned: the same value and the same submission records.
C11_SecondCallSameOutput ==
  SecondCallOver =>
    /\ Output(CurrentAssignment) = first_output[1].output
    /\ Len(http) = 2 * first_output[1].requests
    /\ \A k \in 1..first_output[1].requests :
         http[first_output[1].requests + k] = http[k]

\* Both calls returned the records of two pull requests, one with a run and
\* one without.
C11_Witness ==
  /\ SecondCallOver
  /\ returned[1] = "data"
  /\ first_output[1].output.returned = "data"
  /\ Len(pull_requests[1]) = 2
  /\ pull_requests[1][1].workflow_run # <<>>
  /\ pull_requests[1][2].workflow_run = <<>>

(***************************************************************************)
(* The snapshot writes.                                                    *)
(***************************************************************************)
\* C12: a snapshot write that fails (the pull-request pages, a run list, a
\* run detail, or the final record set of an assignment) does not make the
\* assignment or the batch fail: main is never ended by the OSError of a
\* snapshot write while an assignment is being processed.
C12_SnapshotFailureHarmless ==
  ~(pc = "crashed" /\ exception = "OSError" /\ ai <= Len(assignments))

(***************************************************************************)
(* The requests of fetch_pull_requests.                                    *)
(***************************************************************************)
\* The pages requested are 1, 2, ... in order; every page before the last
\* one requested was answered with items and a next link; and once the loop
\* is over, the last page requested was empty or had no next link.
PagesFollowLinks ==
  /\ requested = [k \in 1..Len(requested) |-> k]
  /\ \A k \in 1..(Len(requested) - 1) :
       ApiPage(ai, k).items # <<>> /\ ApiPage(ai, k).next
  /\ pc \in {"save_pulls", "for_pull"} =>
       /\ requested # <<>>
       /\ \/ ApiPage(ai, Len(requested)).items = <<>>
          \/ ~ApiPage(ai, Len(requested)).next

\* C13: fetch_pull_requests requests page k + 1 only if page k was answered
\* with items and a next link, and stops requesting at the first page that
\* is empty or has none; and its loop comes to an end (the chain of next
\* links of the resource being finite).
C13_StopsAtLastLink == []PagesFollowLinks /\ <>(pc # "fetch_pulls")

\* The loop ended at page 2, which had items and no next link, while the
\* API would have served a third page.
C13_Witness ==
  /\ pc = "save_pulls"
  /\ requested = <<1, 2>>
  /\ Len(api_pulls[ai]) = 3
  /\ api_pulls[ai][2].items # <<>>
  /\ ~api_pulls[ai][2].next
  /\ api_pulls[ai][3].items # <<>>

(***************************************************************************)
(* The HTTP requests, stated over the log of the requests issued.          *)
(***************************************************************************)
\* The places in the log of the requests whose status was not a success.
Refused == {i \in 1..Len(http) : ~http[i].ok}

\* C14: after the first request of an assignment that is answered with a
\* non-success status (a page of pull requests, a run list or a run detail),
\* no request is issued for that assignment, the refused one again included,
\* and retrieve_assignment_submission_data returns False for it.
C14_NoRequestAfterRefusal ==
  \A i \in Refused :
    /\ \A j \in (i + 1)..Len(http) : http[j].a # http[i].a
    /\ \/ /\ ai = http[i].a
          /\ pc = "request_exception"
          /\ returned[http[i].a] = "pending"
       \/ returned[http[i].a] = "False"

\* The detail request of the first pull request's run was refused: the
\* second pull request listed was never looked at, and False was returned.
C14_Witness ==
  /\ pc = "done"
  /\ returned[1] = "False"
  /\ Len(Listed(1)) = 2
  /\ WellFormed(Listed(1)[2])
  /\ Len(http) \in Refused
  /\ http[Len(http)].url = "run"
  /\ ShaOfRun(http[Len(http)].key) = Listed(1)[1].sha
  /\ \A j \in 1..Len(http) :
       http[j].url = "runs" => http[j].key = Listed(1)[1].sha

\* The head SHAs of the well-formed pull requests listed for assignment a,
\* in the order listed.
RECURSIVE ShasOf(_)
ShasOf(list) ==
  IF list = <<>> THEN <<>>
  ELSE (IF WellFormed(Head(list)) THEN <<Head(list).sha>> ELSE <<>>)
       \o ShasOf(Tail(list))

\* The head SHAs of the run-list requests issued for assignment a, in order.
RECURSIVE RunListKeys(_, _)
RunListKeys(log, a) ==
  IF log = <<>> THEN <<>>
  ELSE (IF Head(log).a = a /\ Head(log).url = "runs"
        THEN <<Head(log).key>> ELSE <<>>)
       \o RunListKeys(Tail(log), a)

\* The order of the requests issued so far.
RequestsInOrder ==
  /\ \A i, j \in 1..Len(http) : i < j => http[i].a <= http[j].a
  /\ \A j \in 1..Len(http) :
       \A a \in 1..(http[j].a - 1) : returned[a] \in {"data", "False"}
  /\ \A i, j \in 1..Len(http) :
       (i < j /\ http[i].a = http[j].a /\ http[j].url = "pulls")
         => http[i].url = "pulls"
  /\ \A j \in 1..Len(http) :
       http[j].url = "runs" =>
         /\ http[j].page = 1
         /\ {http[i].page : i \in {i \in 1..j : /\ http[i].a = http[j].a
                                                 /\ http[i].url = "pulls"
                                                 /\ http[i].ok}}
              = 1..Len(api_pulls[http[j].a])
  /\ \A a \in 1..Len(assignments) :
       LET keys == RunListKeys(http, a)
       IN /\ Len(keys) <= Len(ShasOf(Listed(a)))
          /\ keys = SubSeq(ShasOf(Listed(a)), 1, Len(keys))
  /\ \A j \in 1..Len(http) :
       http[j].url = "run" =>
         \E i \in 1..(j - 1) :
           /\ http[i].url = "runs"
           /\ http[i].ok
           /\ http[i].a = http[j].a
           /\ http[i].key = ShaOfRun(http[j].key)
           /\ \A m \in (i + 1)..(j - 1) : http[m].url = "run"

\* A record is not changed once the record of a later pull request or the
\* requests of a later assignment have begun.
RecordsFinal ==
  \A a \in 1..Len(assignments) :
    \A k \in 1..Len(pull_requests[a]) :
      (a < ai \/ k < Len(pull_requests[a])) =>
        /\ Len(pull_requests'[a]) >= k
        /\ pull_requests'[a][k] = pull_requests[a][k]

\* C15: the requests are issued one after the other in the order of the
\* per-assignment states: all the pages of an assignment's pull requests
\* before any of its run lists; the run lists in the order the pull requests
\* were listed, each followed by the details of its own runs and by nothing
\* else before the next run list, the record of a pull request being final
\* by then; and no request of an assignment before every assignment before
\* it has returned its data or False.
C15_StrictlySequential == []RequestsInOrder /\ [][RecordsFinal]_vars

\* Two assignments were processed to the end, the first with two pull
\* requests and the second with one, each pull request with a run.
C15_Witness ==
  /\ pc = "done"
  /\ returned = <<"data", "data">>
  /\ Len(pull_requests[1]) = 2
  /\ Len(pull_requests[2]) = 1
  /\ \A a \in 1..2 : \A k \in 1..Len(pull_requests[a]) :
       pull_requests[a][k].workflow_run # <<>>
  /\ Len(http) = 9

(***************************************************************************)
(* The requests of one pull request.                                       *)
(***************************************************************************)
\* The run ids of the detail requests issued, in order.
RECURSIVE DetailKeys(_)
DetailKeys(log) ==
  IF log = <<>> THEN <<>>
  ELSE (IF Head(log).url = "run" THEN <<Head(log).key>> ELSE <<>>)
       \o DetailKeys(Tail(log))

\* The run ids of the summaries that have one, in order.
RECURSIVE IdsOf(_)
IdsOf(runs) ==
  IF runs = <<>> THEN <<>>
  ELSE (IF Head(runs).id # Null THEN <<Head(runs).id>> ELSE <<>>)
       \o IdsOf(Tail(runs))

\* The summaries process_workflow_runs has dealt with so far.
Visited ==
  SubSeq(workflow_runs, 1,
         IF pc \in {"request_exception", "crashed"} THEN ri
         ELSE IF ri > Len(workflow_runs) THEN Len(workflow_runs) ELSE ri - 1)

\* C16: for a processed pull request one run-list request is issued, for
\* page 1, and then one detail request for each summary that has a run id,
\* in the order of the list and for no other; a summary without a run id
\* gets no request and is never the selected run.
C16_OneFetchPerRunWithId ==
  /\ pc # "fetch_runs" =>
       /\ Len(RunListKeys(http, ai)) = 1
       /\ \A j \in 1..Len(http) : http[j].url = "runs" => http[j].page = 1
  /\ (pc \in {"process", "assemble"}
      \/ (pc \in {"request_exception", "crashed"}
          /\ http[Len(http)].url = "run")) =>
       DetailKeys(http) = IdsOf(Visited)
  /\ pc = "assemble" =>
       /\ DetailKeys(http) = IdsOf(workflow_runs)
       /\ best_run # <<>> => best_run[1].run_id # Null
  /\ \A j \in 1..Len(http) : http[j].url = "run" => http[j].key # Null
  /\ \A k \in 1..Len(pull_requests[1]) :
       pull_requests[1][k].workflow_run # <<>>
         => pull_requests[1][k].workflow_run[1].run_id # Null

\* The list had a summary without an id between two with one: two details
\* were requested, and one of the two runs was selected.
C16_Witness ==
  /\ pc = "assemble"
  /\ Len(workflow_runs) = 3
  /\ workflow_runs[1].id # Null
  /\ workflow_runs[2].id = Null
  /\ workflow_runs[3].id # Null
  /\ DetailKeys(http) = <<workflow_runs[1].id, workflow_runs[3].id>>
  /\ best_run # <<>>
  /\ best_run[1].run_id = workflow_runs[3].id

(***************************************************************************)
(* The selected run and the details fetched.                               *)
(***************************************************************************)
\* C17: the run process_workflow_runs returns is one of the details this
\* call fetched, whole: its run_id, status, conclusion and updated_at (and
\* the fields copied with them) are those of one and the same detail; and
\* it returns none only when the list had no summary with a run id.
C17_SelectedRunWasFetched ==
  pc = "assemble" =>
    /\ best_run # <<>> => \E k \in 1..Len(fetched) : BestRunIs(k)
    /\ best_run = <<>> <=> IdsOf(workflow_runs) = <<>>
    /\ Len(fetched) = Len(IdsOf(workflow_runs))

\* Of three summaries one had no id; the two others were fetched, they
\* differ in status, conclusion and time, and the later one was selected.
C17_Witness ==
  /\ pc = "assemble"
  /\ Len(workflow_runs) = 3
  /\ Len(fetched) = 2
  /\ BestRunIs(2)
  /\ fetched[1].updated_at # fetched[2].updated_at
  /\ fetched[1].status # fetched[2].status
  /\ fetched[1].conclusion # fetched[2].conclusion

(***************************************************************************)
(* The selection and the order of the list.                                *)
(***************************************************************************)
\* The details fetched have different updated_at, each from every other.
PairwiseDistinct ==
  \A i, j \in 1..Len(fetched) :
    i # j => fetched[i].updated_at # fetched[j].updated_at

\* The runs the selection is made among: the successful ones if there are
\* any, all of them otherwise.
Candidates == IF SuccessfulIdx # {} THEN SuccessfulIdx ELSE 1..Len(fetched)

\* One candidate was updated later than every other candidate.
UniqueGreatest ==
  \E k \in Candidates :
    \A j \in Candidates \ {k} :
      StrGreater(fetched[k].updated_at, fetched[j].updated_at)

\* The details fetched, in the order perm.
Permuted(perm) == [i \in 1..Len(fetched) |-> fetched[perm[i]]]

\* C18: the run process_workflow_runs returns is the one it returns for
\* every other order of the same list, when the updated_at of the details
\* are pairwise distinct, and already when no two candidates share the
\* greatest updated_at.
C18_SelectionIgnoresOrder ==
  pc = "assemble" =>
    /\ best_run = ProcessWorkflowRuns(fetched)
    /\ (PairwiseDistinct \/ UniqueGreatest) =>
         \A perm \in Permutations(1..Len(fetched)) :
           ProcessWorkflowRuns(Permuted(perm)) = best_run

\* Three runs of pairwise distinct updated_at, two of them successful and
\* listed latest first, and the first was selected.
C18_Witness ==
  /\ pc = "assemble"
  /\ Len(fetched) = 3
  /\ PairwiseDistinct
  /\ {1, 2} \subseteq SuccessfulIdx
  /\ StrGreater(fetched[1].updated_at, fetched[2].updated_at)
  /\ BestRunIs(1)

(***************************************************************************)
(* The rows handed to persistence, per assignment.                         *)
(***************************************************************************)
\* The rows of assignment a among the rows handed to execute_insert_query.
RowsOfAssignment(a) ==
  {k \in 1..Len(insert_values) :
     insert_values[k].assignment_id = assignments[a].assignment_id}

\* The places in the list of assignment a of its well-formed pull requests.
WellFormedIdx(a) == {j \in 1..Len(Listed(a)) : WellFormed(Listed(a)[j])}

\* C19, as claimed: the rows main hands to persistence hold, for every
\* assignment, a row of each of its well-formed pull requests (it returned
\* its data) or no row of it at all (it returned False).
C19_AllOrNothing ==
  pc = "done" =>
    \A a \in 1..Len(assignments) :
      IF returned[a] = "data"
      THEN \A j \in WellFormedIdx(a) :
             RowsOf(insert_values, a, Listed(a)[j].number) # {}
      ELSE RowsOfAssignment(a) = {}

\* C19, amended: the rows main hands to persistence hold, for every
\* assignment, one row, carrying the record, of each of its well-formed pull
\* requests that has an author and whose user lookup did not raise, and no
\* other row of it (it returned its data), or no row of it at all (it
\* returned False), whatever records the failed call had assembled.
C19_AllResolvedOrNothing ==
  pc = "done" =>
    \A a \in 1..Len(assignments) :
      IF returned[a] = "data"
      THEN /\ RowsPersisted(a)
           /\ \A j \in WellFormedIdx(a) :
                LET rows == RowsOf(insert_values, a, Listed(a)[j].number)
                    kept == /\ Listed(a)[j].login # ""
                            /\ <<assignments[a].assignment_id,
                                  Listed(a)[j].number>> \notin dropped
                IN Cardinality(rows) = IF kept THEN 1 ELSE 0
           /\ \A k \in RowsOfAssignment(a) :
                \E j \in WellFormedIdx(a) :
                  insert_values[k].pr_number = Listed(a)[j].number
      ELSE RowsOfAssignment(a) = {}

\* The first assignment failed at its second pull request, the first one
\* assembled with its run, and has no row; the second assignment returned
\* and its row was handed over.
C19_Witness ==
  /\ pc = "done"
  /\ returned = <<"False", "data">>
  /\ Len(pull_requests[1]) = 2
  /\ pull_requests[1][1].workflow_run # <<>>
  /\ RowsOfAssignment(1) = {}
  /\ RowsOfAssignment(2) # {}

====
